---- MODULE Spec2Model ----
(***************************************************************************)
(* Model of quixel's src/lib.rs: QuixelWindow::new (window + pixel surface *)
(* construction) and QuixelWindow::start (on_start, then the closure given *)
(* to EventLoop::run, which is called once per platform event).            *)
(*                                                                         *)
(* The event source is winit's event loop.  Its documented contract is     *)
(* modelled as the environment: every loop iteration delivers NewEvents,   *)
(* then window/device/user events, then MainEventsCleared, then one        *)
(* RedrawRequested for the window when a redraw is pending, then           *)
(* RedrawEventsCleared; ControlFlow::ExitWithCode is sticky (the closure   *)
(* is then handed a dummy ControlFlow), and LoopDestroyed is the last      *)
(* event.  A panic inside the closure ends the run.                        *)
(***************************************************************************)
EXTENDS Integers, Sequences, FiniteSets, TLC

\* ------------------------------------------------------------------ bounds
MaxBatch == 2      \* events delivered before MainEventsCleared per iteration
MaxTime == 3       \* the instant the clock stops at

\* ------------------------------------------------------------------ values
Sizes == {<<1, 2>>, <<2, 1>>, <<2, 2>>}      \* PhysicalSize<u32> as <<width, height>>
NoSize == <<>>
Bools == {0, 1}                              \* false, true
ControlFlowValues == {"Poll", "Wait", "WaitUntil", "Exit"}
NoEvent == [cat |-> "none", kind |-> "none", arg |-> <<>>]

WinEv(k, a) == [cat |-> "window", kind |-> k, arg |-> a]
TopEv(k, a) == [cat |-> "top", kind |-> k, arg |-> a]

\* KeyboardInput as <<virtual keycode, scancode, state>>, positions as <<x, y>>,
\* scroll as <<delta, phase>>, mouse input as <<state, button>>.
KeyInputs == {<<1, 7, 0>>, <<2, 9, 1>>}
Positions == {<<0, 1>>, <<1, 1>>}
Scrolls == {<<0, 1>>, <<2, 1>>}
Clicks == {<<0, 1>>, <<1, 1>>}

\* The WindowEvent variants the match of start() names, with their payloads.
ListedWindowEvents ==
    {WinEv("Resized", s) : s \in Sizes}
    \cup {WinEv("CloseRequested", <<>>), WinEv("Destroyed", <<>>)}
    \cup {WinEv("Focused", <<b>>) : b \in Bools}
    \cup {WinEv("KeyboardInput", k) : k \in KeyInputs}
    \cup {WinEv("CursorMoved", p) : p \in Positions}
    \cup {WinEv("CursorEntered", <<>>), WinEv("CursorLeft", <<>>)}
    \cup {WinEv("MouseWheel", d) : d \in Scrolls}
    \cup {WinEv("MouseInput", c) : c \in Clicks}

\* WindowEvent variants the match leaves to its `_ => ()` arm.
UnlistedWindowEvents ==
    {WinEv("Moved", <<0, 1>>), WinEv("ScaleFactorChanged", <<>>), WinEv("DroppedFile", <<>>)}

WindowEvents == ListedWindowEvents \cup UnlistedWindowEvents

\* Event variants that reach the `misc` arm of the outer match.
MiscEvents ==
    {TopEv("DeviceEvent", <<1>>), TopEv("UserEvent", <<>>),
     TopEv("Suspended", <<>>), TopEv("Resumed", <<>>)}

\* One entry of the log of what a dispatch did: a processor callback or a
\* call on the window, the pixels or the control flow.
Call(f, a) == [fn |-> f, arg |-> a, ev |-> NoEvent]
CallEv(f, e) == [fn |-> f, arg |-> <<>>, ev |-> e]

WindowProcessor ==
    {"on_start", "on_update", "on_render", "on_render_error", "on_input",
     "on_click", "on_scroll", "on_cursor_move", "on_cursor_in_window_change",
     "on_window_resize", "on_window_focus", "on_window_close", "on_quit",
     "on_misc_event"}

\* What the processor may store in the &mut ControlFlow it is lent: leave it
\* alone, or any variant.
ProcessorChoices == ControlFlowValues \cup {"keep"}
Chosen(cf, choice) == IF choice = "keep" THEN cf ELSE choice

NoPixels == [surface |-> NoSize, buffer |-> NoSize]

\* --------------------------------------------------------------- new()
\* The outcome of QuixelWindow::new for a window builder whose build succeeds
\* or not, a window of inner size `size`, and a Pixels::new that succeeds or not.
NewOutcome(result, wsize, px, log) ==
    [result |-> result, window |-> wsize, pixels |-> px, log |-> log]

\* Mutant: the pixel buffer is created with width and height exchanged.
New_SwappedSize(build_ok, size, pixels_ok) ==
    LET built == <<Call("EventLoop::new", <<>>), Call("WindowBuilder::build", <<>>)>>
        swapped == <<size[2], size[1]>>
        made == built \o <<Call("Window::inner_size", <<>>),
                           Call("SurfaceTexture::new", size),
                           Call("Pixels::new", swapped)>>
    IN  IF ~build_ok
        THEN NewOutcome("WindowError", NoSize, NoPixels, built)
        ELSE IF ~pixels_ok
        THEN NewOutcome("PixelsError", NoSize, NoPixels, made)
        ELSE NewOutcome("Ok", size, [surface |-> size, buffer |-> swapped], made)

New(build_ok, size, pixels_ok) ==
    LET built == <<Call("EventLoop::new", <<>>), Call("WindowBuilder::build", <<>>)>>
        made == built \o <<Call("Window::inner_size", <<>>),
                           Call("SurfaceTexture::new", size),
                           Call("Pixels::new", size)>>
    IN  IF ~build_ok
        THEN NewOutcome("WindowError", NoSize, NoPixels, built)
        ELSE IF ~pixels_ok
        THEN NewOutcome("PixelsError", NoSize, NoPixels, made)
        ELSE NewOutcome("Ok", size, [surface |-> size, buffer |-> size], made)

\* --------------------------------------------------- the closure of start()
\* What one call of the closure did: the calls it made in order, the value it
\* left in its control_flow parameter, the pixels, and whether it panicked.
Eff(log, cf, px, panic) == [log |-> log, cf |-> cf, pixels |-> px, panic |-> panic]

\* Mutant: set_wait leaves a control flow already set alone.
SetWait_KeepsOld(cf) == cf

SetWait(cf) == "Wait"
SetExit(cf) == "Exit"

\* Mutant: the frame buffer is not resized with the surface.
OnResized_SurfaceOnly(size, cf, px, surf_ok, buf_ok) ==
    LET rs == Call("resize_surface", size)
    IN  IF ~surf_ok
        THEN Eff(<<rs>>, cf, px, TRUE)
        ELSE Eff(<<rs, Call("request_redraw", <<>>), Call("on_window_resize", size)>>,
                 cf, [px EXCEPT !.surface = size], FALSE)

\* Mutant: the processor is told of the new size before the pixels have it.
OnResized_CallbackFirst(size, cf, px, surf_ok, buf_ok) ==
    LET rs == Call("resize_surface", size)
        rb == Call("resize_buffer", size)
        cb == Call("on_window_resize", size)
    IN  IF ~surf_ok
        THEN Eff(<<cb, rs>>, cf, px, TRUE)
        ELSE IF ~buf_ok
        THEN Eff(<<cb, rs, rb>>, cf, [px EXCEPT !.surface = size], TRUE)
        ELSE Eff(<<cb, rs, rb, Call("request_redraw", <<>>)>>,
                 cf, [surface |-> size, buffer |-> size], FALSE)

\* Mutant: a failed resize is ignored instead of unwrapped.
OnResized_ErrorIgnored(size, cf, px, surf_ok, buf_ok) ==
    LET rs == Call("resize_surface", size)
        rb == Call("resize_buffer", size)
    IN  Eff(<<rs, rb, Call("request_redraw", <<>>), Call("on_window_resize", size)>>, cf,
            [surface |-> IF surf_ok THEN size ELSE px.surface,
             buffer |-> IF buf_ok THEN size ELSE px.buffer], FALSE)

OnResized(size, cf, px, surf_ok, buf_ok) ==
    LET rs == Call("resize_surface", size)
        rb == Call("resize_buffer", size)
    IN  IF ~surf_ok
        THEN Eff(<<rs>>, cf, px, TRUE)
        ELSE IF ~buf_ok
        THEN Eff(<<rs, rb>>, cf, [px EXCEPT !.surface = size], TRUE)
        ELSE Eff(<<rs, rb, Call("request_redraw", <<>>), Call("on_window_resize", size)>>,
                 cf, [surface |-> size, buffer |-> size], FALSE)

OnCloseRequested(cf, px) ==
    Eff(<<Call("on_quit", <<>>), Call("set_exit", <<>>)>>, SetExit(cf), px, FALSE)

OnDestroyed(cf, px) ==
    Eff(<<Call("on_quit", <<>>), Call("set_exit", <<>>)>>, SetExit(cf), px, FALSE)

OnFocused(gained_focus, cf, px) ==
    Eff(<<Call("on_window_focus", gained_focus)>>, cf, px, FALSE)

OnKeyboardInput(input, cf, px) ==
    Eff(<<Call("on_input", input)>>, cf, px, FALSE)

OnCursorMoved(position, cf, px) ==
    Eff(<<Call("on_cursor_move", position)>>, cf, px, FALSE)

OnCursorEntered(cf, px) ==
    Eff(<<Call("on_cursor_in_window_change", <<1>>)>>, cf, px, FALSE)

\* Mutant: leaving the window is reported as entering it.
OnCursorLeft_ReportsEntered(cf, px) ==
    Eff(<<Call("on_cursor_in_window_change", <<1>>)>>, cf, px, FALSE)

OnCursorLeft(cf, px) ==
    Eff(<<Call("on_cursor_in_window_change", <<0>>)>>, cf, px, FALSE)

\* MouseWheel { delta, phase } => on_scroll(delta, phase)
OnMouseWheel(delta_phase, cf, px) ==
    Eff(<<Call("on_scroll", <<delta_phase[1], delta_phase[2]>>)>>, cf, px, FALSE)

\* MouseInput { state, button } => on_click(state, button)
OnMouseInput(state_button, cf, px) ==
    Eff(<<Call("on_click", <<state_button[1], state_button[2]>>)>>, cf, px, FALSE)

\* Mutant: an unlisted window event falls through to the catch-all callback.
OnOtherWindowEvent_ToCatchAll(cf, px) ==
    Eff(<<CallEv("on_misc_event", NoEvent)>>, cf, px, FALSE)

OnOtherWindowEvent(cf, px) == Eff(<<>>, cf, px, FALSE)

\* Mutant: no redraw is requested after on_update.
OnMainEventsCleared_NoRedraw(cf, px, update_cf, time) ==
    Eff(<<Call("on_update", <<time.now - time.dt>>),
          Call("Instant::now", <<time.now + time.took>>)>>,
        Chosen(cf, update_cf), px, FALSE)

\* on_update is lent control_flow and may store `update_cf` in it.  The
\* closure is entered at time.now with the captured instant time.dt:
\* dt.elapsed() is read as the call of on_update is made, on_update and
\* request_redraw take time.took, and Instant::now() is read after them.
OnMainEventsCleared(cf, px, update_cf, time) ==
    Eff(<<Call("on_update", <<time.now - time.dt>>), Call("request_redraw", <<>>),
          Call("Instant::now", <<time.now + time.took>>)>>,
        Chosen(cf, update_cf), px, FALSE)

\* Mutant: the surface is presented before on_render has drawn the frame.
OnRedrawRequested_PresentFirst(cf, px, present_ok, error_cf) ==
    LET drawn == <<Call("pixels.render", IF present_ok THEN <<1>> ELSE <<0>>),
                   Call("on_render", px.buffer)>>
    IN  IF present_ok
        THEN Eff(drawn, cf, px, FALSE)
        ELSE Eff(drawn \o <<Call("on_render_error", <<0>>)>>, Chosen(cf, error_cf), px, FALSE)

\* Mutant: a failed presentation is swallowed, on_render_error is not told.
OnRedrawRequested_ErrorSwallowed(cf, px, present_ok, error_cf) ==
    Eff(<<Call("on_render", px.buffer),
          Call("pixels.render", IF present_ok THEN <<1>> ELSE <<0>>)>>, cf, px, FALSE)

\* on_render sees the pixels; pixels.render() returns Ok (<<1>>) or Err (<<0>>);
\* on_render_error is lent control_flow and may store `error_cf` in it.
OnRedrawRequested(cf, px, present_ok, error_cf) ==
    LET drawn == <<Call("on_render", px.buffer),
                   Call("pixels.render", IF present_ok THEN <<1>> ELSE <<0>>)>>
    IN  IF present_ok
        THEN Eff(drawn, cf, px, FALSE)
        ELSE Eff(drawn \o <<Call("on_render_error", <<0>>)>>, Chosen(cf, error_cf), px, FALSE)

\* Mutant: the last event only sets the control flow, the processor is not told.
OnLoopDestroyed_Silent(cf, px) ==
    Eff(<<Call("set_exit", <<>>)>>, SetExit(cf), px, FALSE)

OnLoopDestroyed(cf, px) ==
    Eff(<<Call("set_exit", <<>>), Call("on_quit", <<>>)>>, SetExit(cf), px, FALSE)

OnMisc(misc, cf, px) == Eff(<<CallEv("on_misc_event", misc)>>, cf, px, FALSE)

\* The inputs a call of the closure draws on besides the event: whether the
\* pixels calls succeed and what the processor stores in control_flow.
\* `time` is the clock of the call: the instant it is made at, the captured
\* dt, and how long on_update and request_redraw take.
Inputs == [surf_ok : BOOLEAN, buf_ok : BOOLEAN, present_ok : BOOLEAN,
           update_cf : ProcessorChoices, error_cf : ProcessorChoices,
           time : [now : Nat, dt : Nat, took : Nat]]
Quiet == [surf_ok |-> TRUE, buf_ok |-> TRUE, present_ok |-> TRUE,
          update_cf |-> "keep", error_cf |-> "keep",
          time |-> [now |-> 0, dt |-> 0, took |-> 0]]

MatchWindowEvent(e, cf, px, in) ==
    CASE e.kind = "Resized" -> OnResized(e.arg, cf, px, in.surf_ok, in.buf_ok)
      [] e.kind = "CloseRequested" -> OnCloseRequested(cf, px)
      [] e.kind = "Destroyed" -> OnDestroyed(cf, px)
      [] e.kind = "Focused" -> OnFocused(e.arg, cf, px)
      [] e.kind = "KeyboardInput" -> OnKeyboardInput(e.arg, cf, px)
      [] e.kind = "CursorMoved" -> OnCursorMoved(e.arg, cf, px)
      [] e.kind = "CursorEntered" -> OnCursorEntered(cf, px)
      [] e.kind = "CursorLeft" -> OnCursorLeft(cf, px)
      [] e.kind = "MouseWheel" -> OnMouseWheel(e.arg, cf, px)
      [] e.kind = "MouseInput" -> OnMouseInput(e.arg, cf, px)
      [] OTHER -> OnOtherWindowEvent(cf, px)

MatchEvent(e, cf, px, in) ==
    IF e.cat = "window"
    THEN MatchWindowEvent(e, cf, px, in)
    ELSE CASE e.kind = "MainEventsCleared" -> OnMainEventsCleared(cf, px, in.update_cf, in.time)
           [] e.kind = "RedrawRequested" ->
                  OnRedrawRequested(cf, px, in.present_ok, in.error_cf)
           [] e.kind = "LoopDestroyed" -> OnLoopDestroyed(cf, px)
           [] OTHER -> OnMisc(e, cf, px)

\* One call of the closure: control_flow.set_wait(), then the match.
Closure(e, cf, px, in) ==
    LET m == MatchEvent(e, SetWait(cf), px, in)
    IN  [m EXCEPT !.log = <<Call("set_wait", <<>>)>> \o m.log]

\* Mutant: the loop is entered without on_start.
StartCalls_NoOnStart(px, t) == <<Call("Instant::now", <<t>>)>>

\* start() before the loop: on_start, then Instant::now read at instant t.
StartCalls(px, t) == <<Call("on_start", px.buffer), Call("Instant::now", <<t>>)>>

\* What Instant::now() returned in the calls of a log, `old` when the log
\* has no such call: the value of dt after the log.
ClockReading(log, old) ==
    LET reads == {i \in DOMAIN log : log[i].fn = "Instant::now"}
    IN  IF reads = {} THEN old
        ELSE log[CHOOSE i \in reads : \A j \in reads : j <= i].arg[1]

\* ------------------------------------------------ what the processor is lent
\* What the frame buffer holds: "blank" as Pixels::new allocated it, "relaid"
\* after resize_buffer, "drawn" and "redrawn" after the processor has painted.
Frames == {"blank", "relaid", "drawn", "redrawn"}
\* What the processor can set on a window it is lent (title, cursor, ...).
WindowStates == {"as_built", "changed"}
\* A "passive" processor never uses what it is lent; an "active" one paints a
\* new frame wherever it is lent the pixels and changes the window wherever
\* it is lent the window.
Processors == {"passive", "active"}

Painted(frame) == IF frame = "drawn" THEN "redrawn" ELSE "drawn"
Retitled(window_state) == IF window_state = "as_built" THEN "changed" ELSE "as_built"

\* Mutant: on_window_resize is lent the pixels as well.
LendsPixels_AlsoOnResize == {"on_start", "on_render", "on_window_resize"}

\* Mutant: on_render_error is lent the window as well.
LendsWindow_AlsoOnRenderError == {"on_start", "on_update", "on_render", "on_render_error"}

\* The callbacks with a `&mut Window` parameter, and with a `&mut Pixels` one.
LendsWindow == {"on_start", "on_update", "on_render"}
LendsPixels == {"on_start", "on_render"}

\* The frame and the window after the calls of a log, made in order on
\* st = [frame, window_state]: resize_buffer relays the buffer when it
\* succeeds, and the processor acts in the callbacks that lend.
RECURSIVE Lend(_, _, _, _)
Lend(log, st, processor_kind, buf_ok) ==
    IF log = <<>> THEN st
    ELSE LET c == Head(log)
             active == processor_kind = "active"
             s1 == IF c.fn = "resize_buffer" /\ buf_ok
                   THEN [st EXCEPT !.frame = "relaid"] ELSE st
             s2 == IF active /\ c.fn \in LendsPixels
                   THEN [s1 EXCEPT !.frame = Painted(@)] ELSE s1
             s3 == IF active /\ c.fn \in LendsWindow
                   THEN [s2 EXCEPT !.window_state = Retitled(@)] ELSE s2
         IN  Lend(Tail(log), s3, processor_kind, buf_ok)

\* ------------------------------------------------------------------- state
VARIABLES
    stage,          \* "new", "built", "failed", "loop", "exited", "panicked"
    result,         \* what new() returned: "none" before the call
    window,         \* the window's inner size at construction, NoSize without one
    pixels,         \* [surface, buffer]: the sizes of self.pixels
    control_flow,   \* the event loop's ControlFlow
    cf_arg,         \* what the last closure call left in its control_flow parameter
    event,          \* the event of the last closure call
    calls,          \* the calls made by the last run of new, start or the closure
    loop_pos,       \* where the iteration is: "NewEvents", "Main", "Redraw", "Wait"
    batch,          \* events delivered since NewEvents in this iteration
    redraw_pending, \* request_redraw was called and no RedrawRequested came yet
    wait_strategy,  \* the ControlFlow the loop last waited with, "none" before
    update_set,     \* what on_update last stored in control_flow, "none"/"keep"
    n_start,        \* on_start calls of the run
    n_quit,         \* on_quit calls of the run
    quit_on_close,  \* on_quit was called for CloseRequested or Destroyed
    exit_in_error,  \* on_render_error stored ExitWithCode in control_flow
    resize_failed,  \* resize_surface or resize_buffer returned Err
    last_resize,    \* the size of the last Resized event, NoSize before
    cycle_redraws,  \* request_redraw calls of the current idle cycle
    cycle_resizes,  \* Resized events of the current idle cycle
    processor,      \* the kind of the window_processor: "passive" or "active"
    frame,          \* what the frame buffer of self.pixels holds
    window_state,   \* what the processor has set on self.window
    now,            \* the clock: the instant Instant::now() would return
    dt,             \* the instant captured in `dt`
    loop_start,     \* the instant the loop was entered at
    update_at,      \* the instant of the last on_update call, loop_start before
    prev_update_at, \* update_at before the last on_update call
    elapsed_sum     \* the sum of the elapsed times on_update was given

vars == <<stage, result, window, pixels, control_flow, cf_arg, event, calls,
          loop_pos, batch, redraw_pending, wait_strategy, update_set,
          n_start, n_quit, quit_on_close, exit_in_error, resize_failed, last_resize,
          cycle_redraws, cycle_resizes, processor, frame, window_state,
          now, dt, loop_start, update_at, prev_update_at, elapsed_sum>>

RECURSIVE Count(_, _)
Count(log, f) ==
    IF log = <<>> THEN 0
    ELSE (IF Head(log).fn = f THEN 1 ELSE 0) + Count(Tail(log), f)

\* The processor callbacks among the calls of a log, in order.
Callbacks(log) == SelectSeq(log, LAMBDA c : c.fn \in WindowProcessor)

InitWith(processor_kind) ==
    /\ processor = processor_kind
    /\ frame = "blank"
    /\ window_state = "as_built"
    /\ now = 0
    /\ dt = 0
    /\ loop_start = 0
    /\ update_at = 0
    /\ prev_update_at = 0
    /\ elapsed_sum = 0
    /\ stage = "new"
    /\ result = "none"
    /\ window = NoSize
    /\ pixels = NoPixels
    /\ control_flow = "Poll"
    /\ cf_arg = "Poll"
    /\ event = NoEvent
    /\ calls = <<>>
    /\ loop_pos = "NewEvents"
    /\ batch = 0
    /\ redraw_pending = FALSE
    /\ wait_strategy = "none"
    /\ update_set = "none"
    /\ n_start = 0
    /\ n_quit = 0
    /\ quit_on_close = FALSE
    /\ exit_in_error = FALSE
    /\ resize_failed = FALSE
    /\ last_resize = NoSize
    /\ cycle_redraws = 0
    /\ cycle_resizes = 0

\* The run of a processor that leaves the window and the pixels alone.
Init == InitWith("passive")

\* QuixelWindow::new(window_builder, window_processor)
CallNew ==
    /\ stage = "new"
    /\ \E build_ok \in BOOLEAN, size \in Sizes, pixels_ok \in BOOLEAN :
          LET r == New(build_ok, size, pixels_ok)
          IN  /\ result' = r.result
              /\ window' = r.window
              /\ pixels' = r.pixels
              /\ calls' = r.log
              /\ stage' = IF r.result = "Ok" THEN "built" ELSE "failed"
    /\ UNCHANGED <<control_flow, cf_arg, event, loop_pos, batch, redraw_pending,
                   wait_strategy, update_set, n_start, n_quit, quit_on_close,
                   exit_in_error, resize_failed, last_resize, cycle_redraws, cycle_resizes,
                   processor, frame, window_state,
                   now, dt, loop_start, update_at, prev_update_at, elapsed_sum>>

\* start(self) up to the call of event_loop.run
Start ==
    /\ stage = "built"
    /\ stage' = "loop"
    /\ calls' = StartCalls(pixels, now)
    /\ n_start' = n_start + Count(StartCalls(pixels, now), "on_start")
    /\ LET st == Lend(StartCalls(pixels, now),
                      [frame |-> frame, window_state |-> window_state], processor, TRUE)
       IN  frame' = st.frame /\ window_state' = st.window_state
    /\ dt' = ClockReading(StartCalls(pixels, now), dt)
    /\ loop_start' = now
    /\ update_at' = now
    /\ prev_update_at' = now
    /\ UNCHANGED <<result, window, pixels, control_flow, cf_arg, event, loop_pos, batch,
                   redraw_pending, wait_strategy, update_set, n_quit, quit_on_close,
                   exit_in_error, resize_failed, last_resize, cycle_redraws, cycle_resizes,
                   processor, now, elapsed_sum>>

\* The event loop calls the closure with event e; `in` are the outcomes of the
\* pixels calls and the processor's stores, `pos` where the iteration goes.
\* An ExitWithCode control flow is sticky: the closure then works on a dummy.
Deliver(e, in, pos) ==
    LET r == Closure(e, control_flow, pixels,
                     [in EXCEPT !.time = [now |-> now, dt |-> dt, took |-> in.time.took]])
        updates == {i \in DOMAIN r.log : r.log[i].fn = "on_update"}
        fresh == event.kind = "MainEventsCleared"
        requests == Count(r.log, "request_redraw")
        quits == Count(r.log, "on_quit")
        st == Lend(r.log, [frame |-> frame, window_state |-> window_state],
                   processor, in.buf_ok)
    IN  /\ stage = "loop"
        /\ frame' = st.frame
        /\ window_state' = st.window_state
        /\ event' = e
        /\ calls' = r.log
        /\ cf_arg' = r.cf
        /\ control_flow' = IF control_flow = "Exit" THEN "Exit" ELSE r.cf
        /\ pixels' = r.pixels
        /\ stage' = IF r.panic THEN "panicked"
                    ELSE IF e.kind = "LoopDestroyed" THEN "exited" ELSE "loop"
        /\ loop_pos' = pos
        /\ redraw_pending' = IF e.kind = "RedrawRequested" THEN requests > 0
                             ELSE redraw_pending \/ requests > 0
        /\ n_start' = n_start + Count(r.log, "on_start")
        /\ n_quit' = n_quit + quits
        /\ quit_on_close' = (quit_on_close
                                \/ (quits > 0 /\ e.kind \in {"CloseRequested", "Destroyed"}))
        /\ exit_in_error' = (exit_in_error
                                \/ (Count(r.log, "on_render_error") > 0 /\ in.error_cf = "Exit"))
        /\ resize_failed' = (resize_failed
                                \/ (e.kind = "Resized" /\ ~(in.surf_ok /\ in.buf_ok)))
        /\ last_resize' = IF e.kind = "Resized" THEN e.arg ELSE last_resize
        /\ cycle_redraws' = (IF fresh THEN 0 ELSE cycle_redraws) + requests
        /\ cycle_resizes' = (IF fresh THEN 0 ELSE cycle_resizes)
                                + (IF e.kind = "Resized" THEN 1 ELSE 0)
        /\ update_set' = IF e.kind = "MainEventsCleared" THEN in.update_cf ELSE update_set
        /\ now' = ClockReading(r.log, now)
        /\ dt' = ClockReading(r.log, dt)
        /\ update_at' = IF updates = {} THEN update_at ELSE now
        /\ prev_update_at' = IF updates = {} THEN prev_update_at ELSE update_at
        /\ elapsed_sum' = IF updates = {} THEN elapsed_sum
                          ELSE elapsed_sum + r.log[CHOOSE i \in updates : TRUE].arg[1]
        /\ UNCHANGED <<result, window, wait_strategy, processor, loop_start>>

DeliverNewEvents ==
    /\ loop_pos = "NewEvents"
    /\ batch' = 0
    /\ \E cause \in Bools : Deliver(TopEv("NewEvents", <<cause>>), Quiet, "Main")

\* A window event out of `events` is delivered.
DeliverWindowEventOf(events) ==
    /\ loop_pos = "Main"
    /\ batch < MaxBatch
    /\ batch' = batch + 1
    /\ \E e \in events, surf_ok \in BOOLEAN, buf_ok \in BOOLEAN :
          /\ (e.kind # "Resized") => (surf_ok /\ buf_ok)
          /\ (~surf_ok) => buf_ok
          /\ Deliver(e, [Quiet EXCEPT !.surf_ok = surf_ok, !.buf_ok = buf_ok], "Main")

DeliverWindowEvent == DeliverWindowEventOf(WindowEvents)

DeliverMiscEvent ==
    /\ loop_pos = "Main"
    /\ batch < MaxBatch
    /\ batch' = batch + 1
    /\ \E e \in MiscEvents : Deliver(e, Quiet, "Main")

\* MainEventsCleared is delivered; on_update and request_redraw take one of
\* `durations`.
DeliverMainEventsClearedIn(durations) ==
    /\ loop_pos = "Main"
    /\ UNCHANGED batch
    /\ \E c \in ProcessorChoices, took \in durations :
          Deliver(TopEv("MainEventsCleared", <<>>),
                  [Quiet EXCEPT !.update_cf = c, !.time.took = took], "Redraw")

\* In Spec the clock stands still.
DeliverMainEventsCleared == DeliverMainEventsClearedIn({0})

DeliverRedrawRequested ==
    /\ loop_pos = "Redraw"
    /\ redraw_pending
    /\ UNCHANGED batch
    /\ \E ok \in BOOLEAN, c \in ProcessorChoices :
          /\ ok => c = "keep"
          /\ Deliver(TopEv("RedrawRequested", <<>>),
                     [Quiet EXCEPT !.present_ok = ok, !.error_cf = c], "Redraw")

DeliverRedrawEventsCleared ==
    /\ loop_pos = "Redraw"
    /\ ~redraw_pending
    /\ UNCHANGED batch
    /\ Deliver(TopEv("RedrawEventsCleared", <<>>), Quiet, "Wait")

\* The iteration is over and the control flow is not ExitWithCode: the loop
\* waits for events the way the control flow says, then starts an iteration.
WaitForEvents ==
    /\ stage = "loop"
    /\ loop_pos = "Wait"
    /\ control_flow # "Exit"
    /\ wait_strategy' = control_flow
    /\ loop_pos' = "NewEvents"
    /\ UNCHANGED <<stage, result, window, pixels, control_flow, cf_arg, event, calls, batch,
                   redraw_pending, update_set, n_start, n_quit, quit_on_close,
                   exit_in_error, resize_failed, last_resize, cycle_redraws, cycle_resizes,
                   processor, frame, window_state,
                   now, dt, loop_start, update_at, prev_update_at, elapsed_sum>>

\* The iteration is over and the control flow is ExitWithCode: the loop stops
\* and delivers its last event.
DeliverLoopDestroyed ==
    /\ loop_pos = "Wait"
    /\ control_flow = "Exit"
    /\ UNCHANGED batch
    /\ Deliver(TopEv("LoopDestroyed", <<>>), Quiet, "Wait")

Next ==
    \/ CallNew
    \/ Start
    \/ DeliverNewEvents
    \/ DeliverWindowEvent
    \/ DeliverMiscEvent
    \/ DeliverMainEventsCleared
    \/ DeliverRedrawRequested
    \/ DeliverRedrawEventsCleared
    \/ WaitForEvents
    \/ DeliverLoopDestroyed

Spec == Init /\ [][Next]_vars

\* The run for the question whether the loop ends.  What a window event does
\* to the control flow and to the run depends on its kind only, so one event
\* stands for each way the match treats a window event: a resize, the two that
\* set exit, one that is forwarded and one that is dropped.
LoopEndEvents ==
    {WinEv("Resized", <<2, 1>>), WinEv("CloseRequested", <<>>), WinEv("Destroyed", <<>>),
     WinEv("Focused", <<1>>), WinEv("Moved", <<0, 1>>)}

DeliverLoopEndEvent == DeliverWindowEventOf(LoopEndEvents)

LoopEndNext ==
    \/ CallNew
    \/ Start
    \/ DeliverNewEvents
    \/ DeliverLoopEndEvent
    \/ DeliverMiscEvent
    \/ DeliverMainEventsCleared
    \/ DeliverRedrawRequested
    \/ DeliverRedrawEventsCleared
    \/ WaitForEvents
    \/ DeliverLoopDestroyed

\* event_loop.run never returns control before the loop is over: as long as
\* a step of the run is possible, one is taken.
FairSpec == Init /\ [][LoopEndNext]_vars /\ WF_vars(LoopEndNext)

\* Time passes between two calls of the closure, and before the loop.
Tick ==
    /\ stage \in {"built", "loop"}
    /\ now < MaxTime
    /\ now' = now + 1
    /\ UNCHANGED <<stage, result, window, pixels, control_flow, cf_arg, event, calls,
                   loop_pos, batch, redraw_pending, wait_strategy, update_set,
                   n_start, n_quit, quit_on_close, exit_in_error, resize_failed, last_resize,
                   cycle_redraws, cycle_resizes, processor, frame, window_state,
                   dt, loop_start, update_at, prev_update_at, elapsed_sum>>

\* on_update and request_redraw take time.
DeliverSlowUpdate == DeliverMainEventsClearedIn(1 .. (MaxTime - now))

\* The run for the elapsed time: the clock runs up to MaxTime, and no window
\* or misc events are delivered, since only Instant::now() reads the clock.
TimeNext ==
    \/ CallNew
    \/ Start
    \/ Tick
    \/ DeliverNewEvents
    \/ DeliverMainEventsCleared
    \/ DeliverSlowUpdate
    \/ DeliverRedrawRequested
    \/ DeliverRedrawEventsCleared
    \/ WaitForEvents
    \/ DeliverLoopDestroyed

TimeSpec == Init /\ [][TimeNext]_vars

\* The run of a processor that paints and changes the window wherever it is
\* lent them.
LendSpec == InitWith("active") /\ [][Next]_vars

\* ------------------------------------------------------------ claims C1-C5
Running == stage \in {"built", "loop", "exited"}

\* C1 (as stated): once a CloseRequested or Destroyed event has been
\* dispatched, loop-control is exit, and over the whole run, the final
\* LoopDestroyed included, on_quit is invoked exactly once.
C1_QuitExactlyOnce ==
    /\ quit_on_close => control_flow = "Exit"
    /\ (quit_on_close /\ stage = "exited") => n_quit = 1

\* C2 (as stated): once on_quit has fired for a CloseRequested or Destroyed
\* event, no later step invokes any processor callback.
C2_NoCallbackAfterQuit ==
    [][quit_on_close => Callbacks(calls') = <<>>]_vars

\* The size the frame buffer should have: that of the last Resized event, or
\* the window's inner size at construction before the first one.
ExpectedSize == IF last_resize = NoSize THEN window ELSE last_resize

\* C3: while every resize succeeds, after each dispatch the buffer and the
\* surface both have the size of the most recent Resized event (the window's
\* size at construction before the first), and on_render observes a buffer of
\* that size.
C3_BufferFollowsResize ==
    Running =>
        /\ pixels.surface = ExpectedSize
        /\ pixels.buffer = ExpectedSize
        /\ \A i \in 1..Len(calls) :
              calls[i].fn = "on_render" => calls[i].arg = ExpectedSize

C3_Witness ==
    /\ stage = "loop"
    /\ event.kind = "RedrawRequested"
    /\ last_resize # NoSize
    /\ last_resize # window
    /\ Count(calls, "on_render") = 1

\* C4 (as stated): every idle cycle, the events up to and including a
\* MainEventsCleared, issues exactly one redraw request.
C4_OneRedrawPerCycle ==
    event.kind = "MainEventsCleared" => cycle_redraws = 1

\* C4 (amended): processing a MainEventsCleared issues exactly one redraw
\* request, and every Resized event of the cycle issued one more: a cycle with
\* k resizes issues 1 + k requests, one without resizes exactly one.
C4_OneRedrawPerCyclePlusResizes ==
    event.kind = "MainEventsCleared" =>
        /\ Count(calls, "request_redraw") = 1
        /\ cycle_redraws = 1 + cycle_resizes

C4_Witness ==
    /\ event.kind = "MainEventsCleared"
    /\ cycle_resizes = 2
    /\ cycle_redraws = 3
    /\ wait_strategy # "none"

RECURSIVE IndexOf(_, _)
IndexOf(log, f) ==
    IF log = <<>> THEN 1
    ELSE IF Head(log).fn = f THEN 1 ELSE 1 + IndexOf(Tail(log), f)

\* C5: a RedrawRequested event invokes on_render exactly once and then makes
\* exactly one presentation attempt; no other step renders or presents.
C5_RenderThenPresent ==
    /\ event.kind = "RedrawRequested" =>
          /\ Count(calls, "on_render") = 1
          /\ Count(calls, "pixels.render") = 1
          /\ IndexOf(calls, "on_render") < IndexOf(calls, "pixels.render")
    /\ event.kind # "RedrawRequested" =>
          /\ Count(calls, "on_render") = 0
          /\ Count(calls, "pixels.render") = 0

C5_Witness ==
    /\ event.kind = "RedrawRequested"
    /\ Count(calls, "on_render") = 1
    /\ Count(calls, "pixels.render") = 1
    /\ wait_strategy # "none"

\* ----------------------------------------------------------- claims C6-C10
PresentFailed == \E i \in 1..Len(calls) : calls[i] = Call("pixels.render", <<0>>)

RenderErrorIffFailed ==
    /\ (event.kind = "RedrawRequested" /\ PresentFailed) =>
          /\ Count(calls, "on_render_error") = 1
          /\ calls[Len(calls)] = Call("on_render_error", <<0>>)
    /\ ~(event.kind = "RedrawRequested" /\ PresentFailed) =>
          Count(calls, "on_render_error") = 0

\* C6: on a RedrawRequested whose presentation fails on_render_error is called
\* exactly once, last, with the failure; it is called on no other step; once
\* the processor has stored exit in it the control flow is exit and no later
\* step calls on_update or on_render.
C6_RenderErrorOnce ==
    /\ [](RenderErrorIffFailed /\ (exit_in_error => control_flow = "Exit"))
    /\ [][exit_in_error =>
             (Count(calls', "on_update") = 0 /\ Count(calls', "on_render") = 0)]_vars

C6_Witness ==
    /\ exit_in_error
    /\ stage = "exited"
    /\ ~quit_on_close
    /\ wait_strategy # "none"

\* C7 (as stated): when the loop waits for events, it waits the way on_update
\* last said: with the value on_update stored in control_flow, or wait-for-event
\* when on_update stored nothing.
C7_UpdateSetsWaitStrategy ==
    (stage = "loop" /\ loop_pos = "NewEvents" /\ wait_strategy # "none") =>
        wait_strategy = (IF update_set = "keep" THEN "Wait" ELSE update_set)

\* C8: new() returns a bundle whose surface and buffer have the window's inner
\* size, or the window error without having tried to create the pixels, or the
\* pixels error after the window was created; an error retains nothing, and
\* no processor callback runs during construction.
C8_NewOutcomes ==
    /\ stage = "new" => result = "none"
    /\ stage # "new" => result \in {"Ok", "WindowError", "PixelsError"}
    /\ (stage = "failed") <=> (result \in {"WindowError", "PixelsError"})
    /\ result = "Ok" => window \in Sizes
    /\ stage = "built" =>
          /\ pixels = [surface |-> window, buffer |-> window]
          /\ Count(calls, "WindowBuilder::build") = 1
          /\ calls[Len(calls)] = Call("Pixels::new", window)
    /\ result = "WindowError" =>
          /\ Count(calls, "SurfaceTexture::new") = 0
          /\ Count(calls, "Pixels::new") = 0
    /\ result = "PixelsError" =>
          /\ Count(calls, "WindowBuilder::build") = 1
          /\ Count(calls, "Window::inner_size") = 1
          /\ IndexOf(calls, "WindowBuilder::build") < IndexOf(calls, "Pixels::new")
          /\ Count(calls, "Pixels::new") = 1
    /\ stage = "failed" => (window = NoSize /\ pixels = NoPixels)
    /\ stage \in {"built", "failed"} => (Callbacks(calls) = <<>> /\ n_start = 0)

C8_Witness ==
    /\ stage = "built"
    /\ result = "Ok"
    /\ window = <<1, 2>>
    /\ pixels.buffer = <<1, 2>>

\* C9: on_start is invoked exactly once in a run, first of all callbacks and
\* before any event is dispatched; dispatching an event never invokes it.
C9_StartOnceFirst ==
    /\ stage \in {"new", "built", "failed"} =>
          (n_start = 0 /\ event = NoEvent /\ Callbacks(calls) = <<>>)
    /\ stage \in {"loop", "exited", "panicked"} => n_start = 1
    /\ (stage = "loop" /\ event = NoEvent) =>
          (Callbacks(calls) # <<>> /\ Head(Callbacks(calls)).fn = "on_start")
    /\ event # NoEvent => Count(calls, "on_start") = 0

C9_Witness ==
    /\ stage = "exited"
    /\ n_start = 1
    /\ wait_strategy # "none"

\* The callback the spec names for each enumerated kind of event.
Named ==
    [KeyboardInput |-> "on_input", CursorMoved |-> "on_cursor_move",
     CursorEntered |-> "on_cursor_in_window_change",
     CursorLeft |-> "on_cursor_in_window_change", MouseWheel |-> "on_scroll",
     MouseInput |-> "on_click", Focused |-> "on_window_focus",
     Resized |-> "on_window_resize", MainEventsCleared |-> "on_update",
     RedrawRequested |-> "on_render"]

\* The payload the named callback is to receive.
NamedPayload(e) ==
    CASE e.kind = "CursorEntered" -> <<1>>
      [] e.kind = "CursorLeft" -> <<0>>
      [] e.kind = "RedrawRequested" -> pixels.buffer
      [] OTHER -> e.arg

\* MainEventsCleared has no payload: what on_update is given is C13's.
ForwardedAsNamed(e, cb) ==
    /\ cb # <<>>
    /\ cb[1].fn = Named[e.kind]
    /\ e.kind # "MainEventsCleared" => cb[1] = Call(Named[e.kind], NamedPayload(e))

\* C10 (as stated): every dispatched event invokes exactly one callback, and
\* for the enumerated kinds it is the named one with the payload unchanged.
C10_ExactlyOneMethod ==
    (event # NoEvent /\ stage # "panicked") =>
        /\ Len(Callbacks(calls)) = 1
        /\ event.kind \in DOMAIN Named => ForwardedAsNamed(event, Callbacks(calls))

\* C10 (amended): an event of an enumerated kind invokes the named callback
\* with the payload unchanged and no other, except that a RedrawRequested whose
\* presentation fails invokes on_render_error after on_render; CloseRequested,
\* Destroyed and LoopDestroyed invoke on_quit alone; another event outside the
\* window category invokes on_misc_event alone with the event; a window event
\* of a kind the match does not list invokes no callback.
C10_OneMethodOrDropped ==
    (event # NoEvent /\ stage # "panicked") =>
        LET cb == Callbacks(calls)
        IN  CASE event.kind = "RedrawRequested" ->
                   /\ ForwardedAsNamed(event, cb)
                   /\ IF PresentFailed
                      THEN Len(cb) = 2 /\ cb[2].fn = "on_render_error"
                      ELSE Len(cb) = 1
              [] event.kind \in (DOMAIN Named) \ {"RedrawRequested"} ->
                   ForwardedAsNamed(event, cb) /\ Len(cb) = 1
              [] event.kind \in {"CloseRequested", "Destroyed", "LoopDestroyed"} ->
                   cb = <<Call("on_quit", <<>>)>>
              [] event.cat = "window" /\ event.kind \notin DOMAIN Named
                   /\ event.kind \notin {"CloseRequested", "Destroyed"} ->
                   cb = <<>>
              [] OTHER -> cb = <<CallEv("on_misc_event", event)>>

C10_Witness ==
    /\ event = WinEv("CursorLeft", <<>>)
    /\ Callbacks(calls) = <<Call("on_cursor_in_window_change", <<0>>)>>
    /\ wait_strategy # "none"

\* ---------------------------------------------------------- claims C11-C18
ListedKinds == {e.kind : e \in ListedWindowEvents}
DispatcherKinds == {"MainEventsCleared", "RedrawRequested", "LoopDestroyed"}

\* C11: a window event of a kind the match does not list invokes no callback,
\* the catch-all included; an event outside the window category other than
\* MainEventsCleared, RedrawRequested and LoopDestroyed invokes on_misc_event
\* exactly once, with that very event, and nothing else.
C11_DroppedOrCatchAll ==
    /\ (event.cat = "window" /\ event.kind \notin ListedKinds) =>
          /\ Callbacks(calls) = <<>>
          /\ Count(calls, "on_misc_event") = 0
    /\ (event.cat = "top" /\ event.kind \notin DispatcherKinds) =>
          Callbacks(calls) = <<CallEv("on_misc_event", event)>>
    /\ Count(calls, "on_misc_event") > 0 =>
          (event.cat = "top" /\ event.kind \notin DispatcherKinds)

C11_Witness ==
    /\ event = WinEv("Moved", <<0, 1>>)
    /\ Callbacks(calls) = <<>>
    /\ wait_strategy # "none"

\* Every event the loop can hand to the closure.
AllEvents ==
    WindowEvents \cup MiscEvents
    \cup {TopEv("NewEvents", <<c>>) : c \in Bools}
    \cup {TopEv(k, <<>>) : k \in DispatcherKinds \cup {"RedrawEventsCleared"}}

\* Some event, with some outcome of the pixels calls, makes the closure call m.
Dispatched(m) ==
    \E e \in AllEvents, ok \in BOOLEAN :
        Count(Closure(e, control_flow, pixels,
                      [Quiet EXCEPT !.surf_ok = ok, !.buf_ok = ok, !.present_ok = ok]).log,
              m) > 0

\* C12 (as stated): each of the fourteen methods of WindowProcessor is
\* dispatched: on_start by the start of the loop, every other one by the
\* processing of some event.
C12_EveryMethodDispatched ==
    stage = "loop" =>
        /\ n_start = 1
        /\ \A m \in WindowProcessor \ {"on_start"} : Dispatched(m)

\* C15: a Resized event that succeeds is processed as resize_surface,
\* resize_buffer, request_redraw, on_window_resize, each once and in this
\* order, all with the event's size; when on_window_resize runs the buffer
\* already has the new size.
C15_ResizeOrder ==
    (event.kind = "Resized" /\ stage # "panicked") =>
        /\ calls = <<Call("set_wait", <<>>),
                     Call("resize_surface", event.arg),
                     Call("resize_buffer", event.arg),
                     Call("request_redraw", <<>>),
                     Call("on_window_resize", event.arg)>>
        /\ pixels.buffer = event.arg
        /\ pixels.surface = event.arg

C15_Witness ==
    /\ event = WinEv("Resized", <<2, 1>>)
    /\ window = <<1, 2>>
    /\ stage = "loop"
    /\ Count(calls, "on_window_resize") = 1

\* C16: when resize_surface or resize_buffer fails the run is over: the
\* dispatch requested no redraw, invoked neither on_window_resize nor
\* on_render_error nor any other callback, tried each resize at most once and
\* never the buffer after a failed surface resize, and no later step follows.
C16_ResizeFailureIsFatal ==
    /\ [](resize_failed <=> stage = "panicked")
    /\ [](stage = "panicked" =>
             /\ event.kind = "Resized"
             /\ Callbacks(calls) = <<>>
             /\ Count(calls, "request_redraw") = 0
             /\ Count(calls, "resize_surface") = 1
             /\ Count(calls, "resize_buffer") <= 1
             /\ (Count(calls, "resize_buffer") = 1 => pixels.surface = event.arg)
             /\ calls[Len(calls)].fn \in {"resize_surface", "resize_buffer"})
    /\ [][stage = "panicked" => UNCHANGED vars]_vars

C16_Witness ==
    /\ stage = "panicked"
    /\ Count(calls, "resize_buffer") = 1
    /\ pixels.surface # pixels.buffer
    /\ wait_strategy # "none"

\* The events after which the closure may leave something else than Wait.
MayLeaveOther(e) ==
    \/ e.kind \in {"CloseRequested", "Destroyed", "LoopDestroyed", "MainEventsCleared"}
    \/ e.kind = "RedrawRequested" /\ PresentFailed

SetsExitOnlyOnClose ==
    Count(calls, "set_exit") > 0 =>
        event.kind \in {"CloseRequested", "Destroyed", "LoopDestroyed"}

\* C18 (as stated): the dispatcher calls set_exit only for CloseRequested,
\* Destroyed and LoopDestroyed, and after any event other than those,
\* MainEventsCleared and a RedrawRequested whose presentation failed, the
\* loop's control flow is Wait whatever it was before.
C18_WaitAfterOtherEvents ==
    /\ SetsExitOnlyOnClose
    /\ (event # NoEvent /\ ~MayLeaveOther(event)) => control_flow = "Wait"

\* C18 (amended): the dispatcher calls set_exit only for those three events;
\* after any other event except MainEventsCleared and a RedrawRequested whose
\* presentation failed the closure has left Wait in its control_flow parameter,
\* and the loop's control flow is Wait unless it was exit before the event,
\* in which case it stays exit.
C18_WaitUnlessAlreadyExit ==
    /\ []SetsExitOnlyOnClose
    /\ []((event # NoEvent /\ ~MayLeaveOther(event)) => cf_arg = "Wait")
    /\ [][(event # NoEvent /\ ~MayLeaveOther(event))' =>
             control_flow' = IF control_flow = "Exit" THEN "Exit" ELSE "Wait"]_vars

C18_Witness ==
    /\ event.kind = "Focused"
    /\ cf_arg = "Wait"
    /\ control_flow = "Exit"
    /\ wait_strategy = "Wait"

\* The loop stops only on an exit control flow, and the LoopDestroyed event it
\* stops with sets exit and invokes on_quit.
StopsOnlyOnExit ==
    /\ [][stage' = "exited" => (stage = "loop" /\ control_flow = "Exit")]_vars
    /\ [](stage = "exited" =>
             /\ event.kind = "LoopDestroyed"
             /\ calls = <<Call("set_wait", <<>>), Call("set_exit", <<>>),
                          Call("on_quit", <<>>)>>
             /\ cf_arg = "Exit")

\* C17 (as stated): the loop stops only when loop-control is exit, and once
\* loop-control is exit after an event the loop eventually stops by
\* delivering LoopDestroyed, which sets exit and invokes on_quit.
C17_ExitLeadsToLoopDestroyed ==
    /\ StopsOnlyOnExit
    /\ (stage = "loop" /\ control_flow = "Exit") ~> (stage = "exited")

\* C17 (amended): as stated, except that a resize that fails in a later event
\* of the same iteration aborts the run before LoopDestroyed is delivered.
C17_ExitLeadsToLoopDestroyedOrAbort ==
    /\ StopsOnlyOnExit
    /\ (stage = "loop" /\ control_flow = "Exit") ~> (stage \in {"exited", "panicked"})

C17_Witness ==
    /\ stage = "exited"
    /\ update_set = "Exit"
    /\ ~quit_on_close
    /\ ~exit_in_error
    /\ wait_strategy = "Wait"

\* ---------------------------------------------------------------- claim C14
Exposing == {"on_start", "on_update", "on_render"}

CallbackNames(log) == {log[i].fn : i \in DOMAIN log} \cap WindowProcessor

\* C14: the window, the surface and the frame buffer are changed by the
\* processor only in a dispatch that calls on_start, on_update or on_render.
\* Whatever else is called (on_input, on_click, on_scroll, on_cursor_move,
\* on_cursor_in_window_change, on_window_resize, on_window_focus, on_quit,
\* on_render_error, on_misc_event) leaves the window, the sizes of the pixels
\* and the contents of the buffer as the dispatcher left them: the sizes
\* change in the dispatcher's own resize only, which relays the buffer, and
\* on_render_error adds nothing to what on_render painted.
C14_MutableOnlyInStartUpdateRender ==
    [][LET cbs == CallbackNames(calls')
       IN  /\ frame' # frame =>
                  \/ cbs \cap Exposing # {}
                  \/ event'.kind = "Resized" /\ frame' = "relaid"
           /\ window_state' # window_state => cbs \cap Exposing # {}
           /\ pixels' # pixels => (stage = "new" \/ event'.kind = "Resized")
           /\ (stage = "loop" /\ cbs # {} /\ cbs \cap Exposing = {}) =>
                  /\ window_state' = window_state
                  /\ frame' \in {frame, "relaid"}
           /\ "on_render_error" \in cbs =>
                  /\ frame' = Painted(frame)
                  /\ window_state' = Retitled(window_state)
                  /\ pixels' = pixels]_vars

\* A painted frame and a changed window went through a callback that is lent
\* neither.
C14_Witness ==
    /\ processor = "active"
    /\ frame = "redrawn"
    /\ window_state = "changed"
    /\ event.kind \in {"KeyboardInput", "Resized"}
    /\ CallbackNames(calls) \cap {"on_input", "on_window_resize"} # {}

\* ---------------------------------------------------------------- claim C13
\* The elapsed time the last call of on_update was given.
Elapsed == calls[CHOOSE i \in DOMAIN calls : calls[i].fn = "on_update"].arg[1]

\* C13: on every idle cycle on_update is given a non-negative elapsed time
\* equal to the time since the previous call of on_update (since the loop was
\* entered for the first), so that the elapsed times given so far sum to the
\* time between the entry of the loop and the last call of on_update, also
\* when on_update and request_redraw take time.
C13_ElapsedSinceLastUpdate ==
    (event.kind = "MainEventsCleared" /\ Count(calls, "on_update") = 1) =>
        /\ Elapsed >= 0
        /\ Elapsed = update_at - prev_update_at
        /\ elapsed_sum = update_at - loop_start

\* What the code gives: the time since dt was last reset, which is after
\* on_update and request_redraw have run, so the time they took is counted
\* in no elapsed time.
C13_ElapsedSinceLastReset ==
    /\ elapsed_sum <= update_at - loop_start
    /\ dt <= now
    /\ (event.kind = "MainEventsCleared" /\ Count(calls, "on_update") = 1) =>
          (Elapsed >= 0 /\ Elapsed <= update_at - prev_update_at)

====
